---- MODULE Spec2Model ----
(***************************************************************************)
(* A model of the cloud-provider package: the AzureStorage adapter over a  *)
(* blob service, the local filesystem it downloads to and uploads from,    *)
(* and the CloudProvider / ProviderFactory / AzureProvider selection       *)
(* chain.  A blob, a file and a buffer are byte sequences; a blob name, a  *)
(* prefix and a provider type are sequences of characters.                 *)
(***************************************************************************)
EXTENDS Integers, Sequences, FiniteSets, TLC

VARIABLES
    blobs,      \* blobs[c]: the blobs of container c, name -> committed content
    copying,    \* copying[c]: destination name -> content of a copy still pending
    files,      \* the local filesystem: path -> content
    dirs,       \* the local directories that exist
    written,    \* history: per blob, the last call that wrote it and the content it carried
    last,       \* the most recent call: its operation, how the service met it, its outcome
    environ,    \* os.environ: variable name -> value
    requested,  \* the provider_type of the latest ProviderFactory.get_provider call, <<type>>
    cloud,      \* the CloudProvider instances constructed so far, each its _provider
    providers,  \* how many AzureProvider instances have been constructed
    storages,   \* how many AzureStorage instances (backend clients) have been constructed
    handed      \* the AzureStorage instances cloud.storage has returned, in order

storageVars == <<blobs, copying, files, dirs, written>>
providerVars == <<environ, requested, cloud, providers, storages, handed>>
vars == <<blobs, copying, files, dirs, written, last,
          environ, requested, cloud, providers, storages, handed>>

----------------------------------------------------------------------------
(* The universe the calls draw their arguments from.                       *)

\* Containers that exist in the storage account, and one that does not.
Containers == {"test-1"}
MissingContainer == "test-9"
ContainerNames == Containers \cup {MissingContainer}

\* Blob names, in the service's listing order (lexicographic).
KeyOrder == << <<"a">>, <<"a", "b">> >>
Keys == {KeyOrder[i] : i \in 1..Len(KeyOrder)}
Prefixes == {<< >>, <<"a">>, <<"a", "b">>, <<"b">>}

\* Byte contents: the prefixes of b"hi..." up to MaxLen bytes.
MaxLen == 1
Text == <<104, 105, 33, 10>>
Contents == {SubSeq(Text, 1, n) : n \in 0..MaxLen}

\* Local paths as <<directory, file name>>; a bare file name has directory "".
LocalPaths == {<<"out", "f.bin">>}
Paths == LocalPaths \cup {<<"", "g.bin">>}

\* The longest key list handed to delete_objects.
MaxBatch == 2

\* What the service answers a call with besides its normal answer: nothing
\* unusual, or a failure that is not a not-found (permission, throttling, network).
Faults == {"none", "HttpResponseError"}

----------------------------------------------------------------------------
(* Outcomes of a call.                                                     *)

Return(v) == [kind |-> "return", val |-> v]
Raise(e) == [kind |-> "raise", val |-> <<e>>]
None == <<"None">>
BytesIO(data) == <<"BytesIO", data>>
Bool(b) == <<"bool", b>>
List(s) == <<"list", s>>
CopyProps(status) == <<"copy", status>>
DataFrame(data) == <<"DataFrame", data>>

Raised(r) == r.kind = "raise"
RaisedExc(r, e) == r.kind = "raise" /\ r.val = <<e>>

Call(op, fault, ret) == [op |-> op, fault |-> fault, ret |-> ret]

----------------------------------------------------------------------------
(* The blob service, as the adapter's SDK calls see it.                    *)

Exists(c, k) == c \in Containers /\ k \in DOMAIN blobs[c]

Pending(c, k) == c \in Containers /\ k \in DOMAIN copying[c]

Put(f, k, v) == [x \in (DOMAIN f) \cup {k} |-> IF x = k THEN v ELSE f[x]]

Drop(f, k) == [x \in (DOMAIN f) \ {k} |-> f[x]]

RECURSIVE StartsWith(_, _)
StartsWith(name, prefix) ==
    IF prefix = << >> THEN TRUE
    ELSE IF name = << >> THEN FALSE
    ELSE Head(name) = Head(prefix) /\ StartsWith(Tail(name), Tail(prefix))

\* blob_client.download_blob().readall()
download_blob(c, k, fault) ==
    IF fault # "none" THEN Raise(fault)
    ELSE IF ~Exists(c, k) THEN Raise("ResourceNotFoundError")
    ELSE Return(blobs[c][k])

\* container_client.list_blobs(name_starts_with=prefix), iterated to the end
list_blobs(c, prefix, fault) ==
    IF fault # "none" THEN Raise(fault)
    ELSE IF c \notin Containers THEN Raise("ResourceNotFoundError")
    ELSE Return(SelectSeq(KeyOrder,
                          LAMBDA k : k \in DOMAIN blobs[c] /\ StartsWith(k, prefix)))

\* blob_client.delete_blob(): the blob goes, and with it a copy still pending on it
delete_blob(st, c, k, fault) ==
    IF fault # "none" THEN [st |-> st, ret |-> Raise(fault)]
    ELSE IF ~(c \in Containers /\ k \in DOMAIN st.blobs[c])
         THEN [st |-> st, ret |-> Raise("ResourceNotFoundError")]
    ELSE [st |-> [st EXCEPT !.blobs[c] = Drop(@, k), !.copying[c] = Drop(@, k)],
          ret |-> Return(None)]

\* blob_client.upload_blob(data, overwrite=...)
upload_blob(st, c, k, data, overwrite, fault) ==
    IF fault # "none" THEN [st |-> st, ret |-> Raise(fault)]
    ELSE IF c \notin Containers THEN [st |-> st, ret |-> Raise("ResourceNotFoundError")]
    ELSE IF k \in DOMAIN st.copying[c] THEN [st |-> st, ret |-> Raise("HttpResponseError")]
    ELSE IF k \in DOMAIN st.blobs[c] /\ ~overwrite
         THEN [st |-> st, ret |-> Raise("ResourceExistsError")]
    ELSE [st |-> [st EXCEPT !.blobs[c] = Put(@, k, data)], ret |-> Return(None)]

\* dest_blob_client.start_copy_from_url(source_blob_client.url): the service takes
\* the source as it is now and answers with the copy's status, "success" when the
\* copy is already done and "pending" when it is still to be carried out; a
\* pending destination exists with no content yet.
start_copy_from_url(st, sc, sk, tc, tk, pending, fault) ==
    IF fault # "none" THEN [st |-> st, ret |-> Raise(fault)]
    ELSE IF ~(sc \in Containers /\ sk \in DOMAIN st.blobs[sc])
         THEN [st |-> st, ret |-> Raise("ResourceNotFoundError")]
    ELSE IF tc \notin Containers THEN [st |-> st, ret |-> Raise("ResourceNotFoundError")]
    ELSE IF tk \in DOMAIN st.copying[tc] THEN [st |-> st, ret |-> Raise("HttpResponseError")]
    ELSE IF pending /\ <<sc, sk>> # <<tc, tk>>
         THEN [st |-> [st EXCEPT !.blobs[tc] = Put(@, tk, << >>),
                                 !.copying[tc] = Put(@, tk, st.blobs[sc][sk])],
               ret |-> Return(CopyProps("pending"))]
    ELSE [st |-> [st EXCEPT !.blobs[tc] = Put(@, tk, st.blobs[sc][sk])],
          ret |-> Return(CopyProps("success"))]

----------------------------------------------------------------------------
(* Streams: a BytesIO buffer is its bytes and its position.                *)

seek(buf, pos) == [buf EXCEPT !.pos = pos]

read(buf) == SubSeq(buf.data, buf.pos + 1, Len(buf.data))

\* The buffers a caller holds: any content, positioned at its start or at its end.
Buffers == {[type |-> "BytesIO", data |-> d, pos |-> p] : d \in Contents, p \in {0}}
             \cup {[type |-> "BytesIO", data |-> d, pos |-> Len(d)] : d \in Contents}

\* What upload_object may be handed as its file: a path, a buffer, or something else.
Sources == {[type |-> "str", path |-> p] : p \in LocalPaths}
             \cup Buffers
             \cup {[type |-> "bytes", data |-> d] : d \in Contents}
             \cup {[type |-> "PosixPath", path |-> p] : p \in LocalPaths}
             \cup {[type |-> "NoneType"]}

\* The whole content of an upload source, as the caller sees it.
SourceContent(file) ==
    IF file.type = "str" THEN files[file.path] ELSE file.data

----------------------------------------------------------------------------
(* AzureStorage: what each method returns or raises.                       *)

Store == [blobs |-> blobs, copying |-> copying, written |-> written]

Wrote(st, c, k, op, data) == [st EXCEPT !.written[c][k] = [by |-> op, data |-> data]]

\* get_object without its except clause.
get_object_result_uncaught(c, k, fault) ==
    LET r == download_blob(c, k, fault)
    IN  IF Raised(r) THEN r ELSE Return(BytesIO(r.val))

get_object_result(c, k, fault) ==
    LET r == download_blob(c, k, fault)
    IN  IF RaisedExc(r, "ResourceNotFoundError") THEN Return(None)
        ELSE IF Raised(r) THEN r
        ELSE Return(BytesIO(r.val))

list_objects_result(c, prefix, fault) ==
    LET r == list_blobs(c, prefix, fault)
    IN  IF Raised(r) THEN r ELSE Return(List(r.val))

\* objects_exist listing without name_starts_with.
objects_exist_result_noprefix(c, prefix, fault) ==
    LET r == list_blobs(c, << >>, fault)
    IN  IF Raised(r) THEN Return(Bool(FALSE))
        ELSE IF Len(r.val) > 0 THEN Return(Bool(TRUE))
        ELSE Return(Bool(FALSE))

\* objects_exist catching the not-found error only.
objects_exist_result_narrow(c, prefix, fault) ==
    LET r == list_blobs(c, prefix, fault)
    IN  IF RaisedExc(r, "ResourceNotFoundError") THEN Return(Bool(FALSE))
        ELSE IF Raised(r) THEN r
        ELSE IF Len(r.val) > 0 THEN Return(Bool(TRUE))
        ELSE Return(Bool(FALSE))

objects_exist_result(c, prefix, fault) ==
    LET r == list_blobs(c, prefix, fault)
    IN  IF Raised(r) THEN Return(Bool(FALSE))
        ELSE IF Len(r.val) > 0 THEN Return(Bool(TRUE))
        ELSE Return(Bool(FALSE))

download_object_result(c, k, path, fault) ==
    IF path[1] = "" THEN Raise("FileNotFoundError")
    ELSE LET r == download_blob(c, k, fault)
         IN  IF RaisedExc(r, "ResourceNotFoundError") THEN Raise("FileNotFoundError")
             ELSE IF Raised(r) THEN r
             ELSE Return(None)

read_into_df_result(c, k, fault) ==
    LET r == get_object_result(c, k, fault)
    IN  IF Raised(r) THEN r
        ELSE IF r = Return(None) THEN Return(None)
        ELSE IF r.val[2] = << >> THEN Raise("EmptyDataError")
        ELSE Return(DataFrame(r.val[2]))

copy_object_step(st, sc, sk, tc, tk, pending, fault) ==
    LET r == start_copy_from_url(st, sc, sk, tc, tk, pending, fault)
    IN  IF Raised(r.ret) THEN r
        ELSE [st |-> Wrote(r.st, tc, tk, "copy_object", st.blobs[sc][sk]), ret |-> r.ret]

\* delete_object swallowing what delete_blob raises.
delete_object_step_swallow(st, c, k, fault) ==
    LET r == delete_blob(st, c, k, fault)
    IN  [st |-> Wrote(r.st, c, k, "delete_object", << >>), ret |-> Return(None)]

delete_object_step(st, c, k, fault) ==
    LET r == delete_blob(st, c, k, fault)
    IN  IF Raised(r.ret) THEN r
        ELSE [st |-> Wrote(r.st, c, k, "delete_object", << >>), ret |-> r.ret]

\* delete_objects with each delete_blob wrapped in try/except: a key whose delete
\* fails is skipped and the loop goes on.
RECURSIVE delete_objects_from_absorb(_, _, _, _, _)
delete_objects_from_absorb(st, c, keys, i, failAt) ==
    IF i > Len(keys) THEN [st |-> st, ret |-> Return(None)]
    ELSE LET r == delete_blob(st, c, keys[i],
                              IF i = failAt THEN "HttpResponseError" ELSE "none")
         IN  IF Raised(r.ret) THEN delete_objects_from_absorb(st, c, keys, i + 1, failAt)
             ELSE delete_objects_from_absorb(Wrote(r.st, c, keys[i], "delete_objects", << >>),
                                             c, keys, i + 1, failAt)

\* delete_objects: the loop over object_keys from position i on; the service
\* fails the failAt-th delete (0: none of them).
RECURSIVE delete_objects_from(_, _, _, _, _)
delete_objects_from(st, c, keys, i, failAt) ==
    IF i > Len(keys) THEN [st |-> st, ret |-> Return(None)]
    ELSE LET r == delete_blob(st, c, keys[i],
                              IF i = failAt THEN "HttpResponseError" ELSE "none")
         IN  IF Raised(r.ret) THEN r
             ELSE delete_objects_from(Wrote(r.st, c, keys[i], "delete_objects", << >>),
                                      c, keys, i + 1, failAt)

\* upload_object without file.seek(0).
buffer_stream_noseek(file) == read(file)

\* The bytes upload_object hands to upload_blob from a buffer.
buffer_stream(file) == read(seek(file, 0))

\* upload_object without the isinstance tests' final else: whatever is neither a
\* str nor a BytesIO is handed to upload_blob as it is.
upload_object_step_unchecked(st, file, c, k, overwrite, fault) ==
    IF file.type = "str" THEN
        IF file.path \notin DOMAIN files THEN [st |-> st, ret |-> Raise("FileNotFoundError")]
        ELSE LET r == upload_blob(st, c, k, files[file.path], overwrite, fault)
             IN  IF Raised(r.ret) THEN r
                 ELSE [st |-> Wrote(r.st, c, k, "upload_object", SourceContent(file)),
                       ret |-> r.ret]
    ELSE LET r == upload_blob(st, c, k,
                              IF file.type = "BytesIO" THEN buffer_stream(file)
                              ELSE IF "data" \in DOMAIN file THEN file.data ELSE << >>,
                              overwrite, fault)
         IN  IF Raised(r.ret) THEN r
             ELSE [st |-> Wrote(r.st, c, k, "upload_object",
                                IF "data" \in DOMAIN file THEN file.data ELSE << >>),
                   ret |-> r.ret]

upload_object_step(st, file, c, k, overwrite, fault) ==
    IF file.type = "str" THEN
        IF file.path \notin DOMAIN files THEN [st |-> st, ret |-> Raise("FileNotFoundError")]
        ELSE LET r == upload_blob(st, c, k, files[file.path], overwrite, fault)
             IN  IF Raised(r.ret) THEN r
                 ELSE [st |-> Wrote(r.st, c, k, "upload_object", SourceContent(file)),
                       ret |-> r.ret]
    ELSE IF file.type = "BytesIO" THEN
        LET r == upload_blob(st, c, k, buffer_stream(file), overwrite, fault)
        IN  IF Raised(r.ret) THEN r
            ELSE [st |-> Wrote(r.st, c, k, "upload_object", SourceContent(file)),
                  ret |-> r.ret]
    ELSE [st |-> st, ret |-> Raise("TypeError")]

----------------------------------------------------------------------------
(* AzureStorage: the calls.                                                *)

Commit(st) ==
    /\ blobs' = st.blobs
    /\ copying' = st.copying
    /\ written' = st.written

copy_object(sc, sk, tc, tk, pending, fault) ==
    LET r == copy_object_step(Store, sc, sk, tc, tk, pending, fault)
    IN  /\ Commit(r.st)
        /\ last' = Call("copy_object", fault, r.ret)
        /\ UNCHANGED <<files, dirs, providerVars>>

delete_object(c, k, fault) ==
    LET r == delete_object_step(Store, c, k, fault)
    IN  /\ Commit(r.st)
        /\ last' = Call("delete_object", fault, r.ret)
        /\ UNCHANGED <<files, dirs, providerVars>>

delete_objects(c, keys, failAt) ==
    LET r == delete_objects_from(Store, c, keys, 1, failAt)
    IN  /\ Commit(r.st)
        /\ last' = Call("delete_objects",
                        IF failAt \in 1..Len(keys) THEN "HttpResponseError" ELSE "none", r.ret)
        /\ UNCHANGED <<files, dirs, providerVars>>

download_object(c, k, path, fault) ==
    /\ IF path[1] = ""
       THEN \* os.makedirs('') raises before anything is opened
            UNCHANGED <<files, dirs>>
       ELSE LET r == download_blob(c, k, fault)
            IN  /\ dirs' = dirs \cup {path[1]}
                \* open(download_path, 'wb') comes first: the file is there, empty,
                \* whatever download_blob then does
                /\ files' = Put(files, path, IF Raised(r) THEN << >> ELSE r.val)
    /\ last' = Call("download_object", fault, download_object_result(c, k, path, fault))
    /\ UNCHANGED <<blobs, copying, written, providerVars>>

get_object(c, k, fault) ==
    /\ last' = Call("get_object", fault, get_object_result(c, k, fault))
    /\ UNCHANGED <<storageVars, providerVars>>

list_objects(c, prefix, fault) ==
    /\ last' = Call("list_objects", fault, list_objects_result(c, prefix, fault))
    /\ UNCHANGED <<storageVars, providerVars>>

objects_exist(c, prefix, fault) ==
    /\ last' = Call("objects_exist", fault, objects_exist_result(c, prefix, fault))
    /\ UNCHANGED <<storageVars, providerVars>>

read_into_df(c, k, fault) ==
    /\ last' = Call("read_into_df", fault, read_into_df_result(c, k, fault))
    /\ UNCHANGED <<storageVars, providerVars>>

upload_object(file, c, k, overwrite, fault) ==
    LET r == upload_object_step(Store, file, c, k, overwrite, fault)
    IN  /\ Commit(r.st)
        /\ last' = Call("upload_object", fault, r.ret)
        /\ UNCHANGED <<files, dirs, providerVars>>

----------------------------------------------------------------------------
(* The surroundings: the service finishing a copy, the caller's files.     *)

\* The service carries out a pending copy.
copy_finish(c, k) ==
    /\ Pending(c, k)
    /\ blobs' = [blobs EXCEPT ![c] = Put(@, k, copying[c][k])]
    /\ copying' = [copying EXCEPT ![c] = Drop(@, k)]
    /\ UNCHANGED <<files, dirs, written, last, providerVars>>

\* The caller writes a local file (the tests' temporary files).
write_file(path, data) ==
    /\ files' = Put(files, path, data)
    /\ dirs' = dirs \cup ({path[1]} \ {""})
    /\ UNCHANGED <<blobs, copying, written, last, providerVars>>

\* The caller removes a local file (the tests' clean-up).
remove_file(path) ==
    /\ path \in DOMAIN files
    /\ files' = Drop(files, path)
    /\ UNCHANGED <<blobs, copying, dirs, written, last, providerVars>>

RECURSIVE SeqsUpTo(_, _)
SeqsUpTo(S, n) ==
    IF n = 0 THEN {<< >>}
    ELSE LET shorter == SeqsUpTo(S, n - 1)
         IN  shorter \cup {Append(s, x) : s \in shorter, x \in S}

KeyLists == SeqsUpTo(Keys, MaxBatch)

----------------------------------------------------------------------------
(* Provider selection: ProviderFactory, AzureProvider, CloudProvider.      *)

\* str.lower() on the characters provider types are written with.
LowerChar(ch) ==
    CASE ch = "A" -> "a"
      [] ch = "Z" -> "z"
      [] ch = "U" -> "u"
      [] ch = "R" -> "r"
      [] ch = "E" -> "e"
      [] ch = "W" -> "w"
      [] ch = "S" -> "s"
      [] OTHER -> ch

lower(str) == [i \in 1..Len(str) |-> LowerChar(str[i])]

azure == <<"a", "z", "u", "r", "e">>
Azure == <<"A", "z", "u", "r", "e">>

\* Every way of writing "azure" in upper and lower case.
CaseVariants ==
    {<<c1, c2, c3, c4, c5>> : c1 \in {"a", "A"}, c2 \in {"z", "Z"}, c3 \in {"u", "U"},
                              c4 \in {"r", "R"}, c5 \in {"e", "E"}}

\* Provider types that are not a spelling of "azure".
OtherTypes ==
    {<< >>, <<"a", "w", "s">>, <<"A", "W", "S">>, <<"a", "z", "u", "r">>,
     <<"a", "z", "u", "r", "e", "s">>, <<" ", "a", "z", "u", "r", "e">>,
     <<"A", "z", "u", "r", "e", " ">>, <<"a", "s", "u", "r", "e">>}

ProviderTypes == CaseVariants \cup OtherTypes

\* What CLOUD_PROVIDER is set to, when it is set: the default, or another cloud.
EnvValues == {Azure, <<"a", "w", "s">>}

\* The provider_type argument of CloudProvider(...): left out, None, or a string.
Args == {[kind |-> "omitted"], [kind |-> "None"]}
          \cup {[kind |-> "str", value |-> t] : t \in ProviderTypes}

\* The caps on the instance counters.
MaxProviders == 2
MaxAccesses == 3

AzureProvider(id) == <<"AzureProvider", id>>
AzureStorage(id) == <<"AzureStorage", id>>

\* os.getenv(name, default)
getenv(name, default) == IF name \in DOMAIN environ THEN environ[name] ELSE default

\* get_provider comparing provider_type as it is written.
get_provider_step_exact(provider_type, n) ==
    IF provider_type = azure
    THEN [ret |-> Return(AzureProvider(n + 1)), providers |-> n + 1]
    ELSE [ret |-> Raise("ValueError"), providers |-> n]

\* ProviderFactory.get_provider with n providers constructed so far: its outcome
\* and the number of providers constructed after it.
get_provider_step(provider_type, n) ==
    IF lower(provider_type) = azure
    THEN [ret |-> Return(AzureProvider(n + 1)), providers |-> n + 1]
    ELSE [ret |-> Raise("ValueError"), providers |-> n]

\* CloudProvider.__init__: the provider_type it hands to the factory.
resolve_provider_type(arg) ==
    LET provider_type == IF arg.kind = "omitted" THEN Azure
                         ELSE IF arg.kind = "None" THEN None
                         ELSE arg.value
    IN  IF provider_type = None THEN getenv("CLOUD_PROVIDER", Azure) ELSE provider_type

get_provider(provider_type) ==
    LET r == get_provider_step(provider_type, providers)
    IN  /\ providers < MaxProviders
        /\ requested' = <<provider_type>>
        /\ providers' = r.providers
        /\ last' = Call("get_provider", "none", r.ret)
        /\ UNCHANGED <<storageVars, environ, cloud, storages, handed>>

CloudProvider_init(arg) ==
    LET provider_type == resolve_provider_type(arg)
        r == get_provider_step(provider_type, providers)
    IN  /\ providers < MaxProviders
        /\ cloud = << >>
        /\ requested' = <<provider_type>>
        /\ providers' = r.providers
        /\ cloud' = IF Raised(r.ret) THEN cloud ELSE <<[_provider |-> r.ret.val[2]]>>
        /\ last' = Call("CloudProvider", "none",
                        IF Raised(r.ret) THEN r.ret ELSE Return(<<"CloudProvider", 1>>))
        /\ UNCHANGED <<storageVars, environ, storages, handed>>

\* CloudProvider.storage -> AzureProvider.storage
CloudProvider_storage ==
    /\ cloud # << >>
    /\ storages < MaxAccesses
    /\ storages' = storages + 1
    /\ handed' = Append(handed, AzureStorage(storages + 1))
    /\ last' = Call("storage", "none", Return(AzureStorage(storages + 1)))
    /\ UNCHANGED <<storageVars, environ, requested, cloud, providers>>

\* The process environment is set up before the program runs.
setenv(value) ==
    /\ environ' = Put(environ, "CLOUD_PROVIDER", value)
    /\ UNCHANGED <<storageVars, last, requested, cloud, providers, storages, handed>>

unsetenv ==
    /\ "CLOUD_PROVIDER" \in DOMAIN environ
    /\ environ' = Drop(environ, "CLOUD_PROVIDER")
    /\ UNCHANGED <<storageVars, last, requested, cloud, providers, storages, handed>>

----------------------------------------------------------------------------
NoWrite == [by |-> "none", data |-> << >>]

Init ==
    /\ blobs = [c \in Containers |-> << >>]
    /\ copying = [c \in Containers |-> << >>]
    /\ files = << >>
    /\ dirs = {}
    /\ written = [c \in Containers |-> [k \in Keys |-> NoWrite]]
    /\ last = Call("none", "none", Return(None))
    /\ environ = << >>
    /\ requested = << >>
    /\ cloud = << >>
    /\ providers = 0
    /\ storages = 0
    /\ handed = << >>

Next ==
    \/ \E sc \in ContainerNames, sk \in Keys, tc \in ContainerNames, tk \in Keys,
          pending \in BOOLEAN, f \in Faults : copy_object(sc, sk, tc, tk, pending, f)
    \/ \E c \in ContainerNames, k \in Keys, f \in Faults : delete_object(c, k, f)
    \/ \E c \in ContainerNames, keys \in KeyLists, failAt \in 0..MaxBatch :
          delete_objects(c, keys, failAt)
    \/ \E c \in ContainerNames, k \in Keys, path \in Paths, f \in Faults :
          download_object(c, k, path, f)
    \/ \E c \in ContainerNames, k \in Keys, f \in Faults : get_object(c, k, f)
    \/ \E c \in ContainerNames, p \in Prefixes, f \in Faults : list_objects(c, p, f)
    \/ \E c \in ContainerNames, p \in Prefixes, f \in Faults : objects_exist(c, p, f)
    \/ \E c \in ContainerNames, k \in Keys, f \in Faults : read_into_df(c, k, f)
    \/ \E file \in Sources, c \in ContainerNames, k \in Keys,
          overwrite \in BOOLEAN, f \in Faults : upload_object(file, c, k, overwrite, f)
    \/ \E c \in Containers, k \in Keys : copy_finish(c, k)
    \/ \E path \in LocalPaths, data \in Contents : write_file(path, data)
    \/ \E path \in LocalPaths : remove_file(path)

Spec == Init /\ [][Next]_vars

ProviderNext ==
    \/ \E t \in ProviderTypes : get_provider(t)
    \/ \E arg \in Args : CloudProvider_init(arg)
    \/ CloudProvider_storage
    \/ \E v \in EnvValues : setenv(v)
    \/ unsetenv

ProviderSpec == Init /\ [][ProviderNext]_vars

----------------------------------------------------------------------------
(* Properties of the storage adapter, checked under Spec.                  *)

NotFoundErrors == {"ResourceNotFoundError", "FileNotFoundError"}

\* C1: for every (container, key) that is not in the store, get_object returns
\* None, and whatever the service does it never raises a not-found error; no
\* get_object call ever ended in one.
C1_GetAbsentReturnsNone ==
    /\ \A c \in ContainerNames, k \in Keys :
          ~Exists(c, k) =>
              /\ get_object_result(c, k, "none") = Return(None)
              /\ \A f \in Faults, e \in NotFoundErrors :
                    ~RaisedExc(get_object_result(c, k, f), e)
    /\ last.op = "get_object" => \A e \in NotFoundErrors : ~RaisedExc(last.ret, e)

\* A get_object call on a missing key of a container that holds another blob
\* has returned None.
C1_Witness ==
    /\ last = Call("get_object", "none", Return(None))
    /\ \E c \in Containers : \E k \in Keys : Exists(c, k)

\* C2 as stated: after every step that leaves no copy pending, a blob that is
\* present and whose most recent upload_object is known (that upload was the
\* blob's latest write before the step, or is the step itself) reads back as
\* the content that upload wrote, whatever was done to the blob since.
C2_RoundTripOriginal ==
    [][\A c \in Containers, k \in Keys :
          LET up == IF written'[c][k].by = "upload_object" THEN <<written'[c][k].data>>
                    ELSE IF written[c][k].by = "upload_object" THEN <<written[c][k].data>>
                    ELSE << >>
          IN  (up # << >> /\ Exists(c, k)' /\ copying' = [x \in Containers |-> << >>])
                  => get_object_result(c, k, "none")' = Return(BytesIO(up[1]))]_vars

\* C2, amended: a blob whose latest write is an upload_object call (no
\* copy_object onto it and no delete since) is present and reads back as the
\* whole content of that upload's source, a local file or a buffer.
C2_RoundTrip ==
    \A c \in Containers, k \in Keys :
        written[c][k].by = "upload_object" =>
            /\ Exists(c, k)
            /\ get_object_result(c, k, "none") = Return(BytesIO(written[c][k].data))

\* get_object has returned the non-empty content an upload_object wrote.
C2_Witness ==
    \E c \in Containers, k \in Keys :
        /\ written[c][k].by = "upload_object"
        /\ written[c][k].data # << >>
        /\ last = Call("get_object", "none", Return(BytesIO(written[c][k].data)))

\* C3: a blob whose last write is a delete_object call that returned normally
\* reads as None.
C3_DeleteThenGetAbsent ==
    \A c \in Containers, k \in Keys :
        written[c][k].by = "delete_object" =>
            /\ ~Exists(c, k)
            /\ get_object_result(c, k, "none") = Return(None)

\* get_object has returned None while a deleted blob's name is gone and the
\* container still holds another blob.
C3_Witness ==
    /\ last = Call("get_object", "none", Return(None))
    /\ \E c \in Containers : \E k, k2 \in Keys :
          written[c][k].by = "delete_object" /\ Exists(c, k2)

\* C4 as stated: a blob whose last write is a copy_object call that returned
\* reads as the content the source had when copy_object was called.
C4_CopyThenGet ==
    \A c \in Containers, k \in Keys :
        written[c][k].by = "copy_object" =>
            get_object_result(c, k, "none") = Return(BytesIO(written[c][k].data))

\* C10 as stated: download_object for a blob that does not exist raises the
\* not-found error and leaves no file at the destination that was not there
\* before the call.
C10_DownloadMissingLeavesNoFile ==
    [][\A c \in ContainerNames, k \in Keys, path \in Paths :
          (~Exists(c, k) /\ download_object(c, k, path, "none"))
              => /\ last'.ret = Raise("FileNotFoundError")
                 /\ path \notin DOMAIN files => path \notin DOMAIN files']_vars

\* C5: in every state, for every container and prefix, and however the service
\* meets the two calls alike, objects_exist returns True exactly when
\* list_objects returns a non-empty list.
C5_ExistIffListed ==
    \A c \in ContainerNames, p \in Prefixes, f \in Faults :
        (objects_exist_result(c, p, f) = Return(Bool(TRUE)))
            <=> LET r == list_objects_result(c, p, f)
                IN  ~Raised(r) /\ r.val[2] # << >>

\* objects_exist has returned True while some prefix lists nothing.
C5_Witness ==
    /\ last = Call("objects_exist", "none", Return(Bool(TRUE)))
    /\ \E c \in Containers, p \in Prefixes :
          list_objects_result(c, p, "none") = Return(List(<< >>))

\* An upload source whose bytes upload_object can read.
Readable(file) ==
    \/ file.type = "BytesIO"
    \/ file.type = "str" /\ file.path \in DOMAIN files

OtherOps == {"copy_object", "delete_object", "delete_objects", "download_object",
             "get_object", "list_objects", "read_into_df", "upload_object"}

DeleteFails(c, keys, i, failAt) ==
    \/ i = failAt
    \/ c \notin Containers
    \/ ~Exists(c, keys[i])
    \/ \E j \in 1..(i - 1) : keys[j] = keys[i]

\* C11: delete_objects does not absorb a failing key.  For every key list, when
\* the delete of some key fails the call raises the error of the first such
\* key; the keys before it are gone, and every other blob, the failing key and
\* the keys after it included, is as it was (nothing is rolled back, nothing
\* further is deleted).  When no delete fails the call returns and every key
\* of the list is gone.
C11_DeleteObjectsFailsFast ==
    /\ \A c \in ContainerNames, keys \in KeyLists, failAt \in 0..MaxBatch :
          LET r == delete_objects_from(Store, c, keys, 1, failAt)
              failing == {i \in 1..Len(keys) : DeleteFails(c, keys, i, failAt)}
          IN  IF failing = {}
              THEN /\ r.ret = Return(None)
                   /\ \A i \in 1..Len(keys) : keys[i] \notin DOMAIN r.st.blobs[c]
              ELSE LET j == CHOOSE i \in failing : \A h \in failing : i <= h
                       before == {keys[i] : i \in 1..(j - 1)}
                   IN  /\ r.ret = Raise(IF j = failAt THEN "HttpResponseError"
                                        ELSE "ResourceNotFoundError")
                       /\ c \notin Containers => r.st = Store
                       /\ c \in Containers =>
                             /\ \A k \in before : k \notin DOMAIN r.st.blobs[c]
                             /\ \A k \in Keys \ before :
                                   /\ k \in DOMAIN r.st.blobs[c] <=> Exists(c, k)
                                   /\ Exists(c, k) => r.st.blobs[c][k] = blobs[c][k]
                             /\ \A x \in Containers \ {c} : r.st.blobs[x] = blobs[x]
    /\ (last.op = "delete_objects" /\ last.fault # "none") => Raised(last.ret)

\* delete_objects has failed on a later key after deleting an earlier one: the
\* earlier key is gone, the failing one is still there.
C11_Witness ==
    /\ last = Call("delete_objects", "HttpResponseError", Raise("HttpResponseError"))
    /\ \E c \in Containers, k1 \in Keys, k2 \in Keys :
          /\ k1 # k2
          /\ written[c][k1].by = "delete_objects"
          /\ ~Exists(c, k1)
          /\ Exists(c, k2)

\* The type of an upload source upload_object accepts.
ValidSourceTypes == {"str", "BytesIO"}

\* C12: upload_object with a source that is neither a str path nor a BytesIO
\* raises TypeError, whatever the container, the key, the options and the
\* service's condition, and the store is as before: no blob created, none
\* overwritten, at the target or anywhere else.
C12_InvalidSourceRejected ==
    /\ \A file \in Sources, c \in ContainerNames, k \in Keys,
          overwrite \in BOOLEAN, f \in Faults :
          file.type \notin ValidSourceTypes
              => LET r == upload_object_step(Store, file, c, k, overwrite, f)
                 IN  /\ r.ret = Raise("TypeError")
                     /\ r.st.blobs = blobs
                     /\ r.st.copying = copying
                     /\ r.st.written = written
    /\ \E file \in Sources : file.type \notin ValidSourceTypes

\* upload_object has raised TypeError while the store holds a blob that an
\* earlier upload_object wrote.
C12_Witness ==
    /\ last = Call("upload_object", "none", Raise("TypeError"))
    /\ \E c \in Containers, k \in Keys :
          /\ written[c][k].by = "upload_object"
          /\ Exists(c, k)
          /\ blobs[c][k] = written[c][k].data
          /\ blobs[c][k] # << >>
----------------------------------------------------------------------------
(* Properties of provider selection, checked under ProviderSpec.           *)

\* C7: ProviderFactory.get_provider maps every upper/lower-case spelling of
\* "azure" to a newly constructed AzureProvider, and fails on every other
\* provider type with ValueError, constructing nothing.
C7_FactoryMapping ==
    [][\A t \in ProviderTypes :
          get_provider(t) =>
              IF t \in CaseVariants
              THEN /\ providers' = providers + 1
                   /\ last'.ret = Return(AzureProvider(providers'))
              ELSE /\ providers' = providers
                   /\ last'.ret = Raise("ValueError")]_vars

\* get_provider has returned an AzureProvider for a mixed-case spelling.
C7_Witness ==
    /\ requested = << <<"a", "Z", "U", "r", "E">> >>
    /\ providers > 0
    /\ last = Call("get_provider", "none", Return(AzureProvider(providers)))

\* C8 as stated: CloudProvider hands the factory the explicit argument when a
\* string is given, and otherwise (None, or no argument at all) CLOUD_PROVIDER
\* when it is set, and otherwise "Azure".
C8_ResolutionOrder ==
    [][\A arg \in Args :
          CloudProvider_init(arg) =>
              requested' = << IF arg.kind = "str" THEN arg.value
                              ELSE getenv("CLOUD_PROVIDER", Azure) >>]_vars

\* C9 as stated: a CloudProvider constructs at most one AzureStorage, and every
\* access to its storage returns the same instance.
C9_OneStorage ==
    cloud # << >> =>
        /\ storages <= 1
        /\ \A i, j \in 1..Len(handed) : handed[i] = handed[j]
====
